---- MODULE Spec2Model ----
(***************************************************************************)
(* Model of the PostgreSQL migration driver (src/postgres.go).             *)
(*                                                                         *)
(* The database is modelled by what the driver can observe of it: the      *)
(* catalog rows of information_schema, the committed rows of the version   *)
(* table (markers), and the committed effect of the migration files'       *)
(* own statements (effects).  One Migrate call is a sequential process     *)
(* whose position is pc; its result channel is the sequence pipe plus the  *)
(* flag closed.                                                            *)
(***************************************************************************)
EXTENDS Integers, Sequences, FiniteSets, TLC

VARIABLES
    catalog,    \* rows of information_schema: [table_schema, table_name, data_type]
    markers,    \* committed rows of public.schema_migrations (set of versions)
    effects,    \* versions whose Up statements are committed in the database
    pc,         \* position of the Migrate call / "idle" between calls
    f,          \* the file.File argument of the current Migrate call
    tx,         \* state of the *sql.Tx opened by the current call
    txMarkers,  \* rows of the version table as seen inside the transaction
    txEffects,  \* effects as seen inside the transaction
    pipe,       \* values sent on the result channel by the current call
    closed,     \* TRUE once close(pipe) ran
    ops,        \* database operations issued by the current call, in order
    pre,        \* markers/effects committed when the current call started
    last,       \* summary of the previous finished Migrate call
    everDisabled, \* TRUE once a file with disable_ddl_transaction was executed
    ensure,     \* the last EnsureSchema call: its error and the fault it met and,
                \* until a Migrate call follows, the DDL it issued, the catalog
                \* before it and the error of the EnsureSchema call before it
    options,    \* the options fileOptions returned for the current call's content
    received    \* number of values of pipe the consumer has received

vars == <<catalog, markers, effects, pc, f, tx, txMarkers, txEffects, pipe,
          closed, ops, pre, last, everDisabled, ensure, options, received>>

(* ------------------------------ bounds --------------------------------- *)

MaxVersion == 2

\* longest file content given to fileOptions on its own
MaxLen == 6

VersionSet == 1..MaxVersion

(* ----------------------------- constants ------------------------------- *)

tableName == "public.schema_migrations"

txDisabledOption == "disable_ddl_transaction"

Up == 1

Down == -1

Directions == {Up, Down}

\* file.Version zero value, returned by Version() on sql.ErrNoRows
NoVersion == 0

(* ------------------------- option parsing ------------------------------ *)
\* Content is a sequence of symbols: "-", " ", "\n" are single characters,
\* any other symbol stands for a run of ordinary characters (a word).

RECURSIVE IndexOf(_, _, _)
IndexOf(s, c, i) ==
    IF i > Len(s) THEN 0
    ELSE IF s[i] = c THEN i
    ELSE IndexOf(s, c, i + 1)

\* strings.SplitN(content, "\n", 2)[0]
FirstLine(content) ==
    LET n == IndexOf(content, "\n", 1)
    IN  IF n = 0 THEN content ELSE SubSeq(content, 1, n - 1)

Prefix == <<"-", "-", " ">>

\* a test that finds the prefix anywhere in the line
ContainsPrefix(s, p) ==
    \E i \in 1..Len(s) : i + Len(p) - 1 <= Len(s) /\ SubSeq(s, i, i + Len(p) - 1) = p

HasPrefix(s, p) == Len(s) >= Len(p) /\ SubSeq(s, 1, Len(p)) = p

TrimPrefix(s, p) == IF HasPrefix(s, p) THEN SubSeq(s, Len(p) + 1, Len(s)) ELSE s

\* strings.Split(s, " "): n separators give n+1 tokens, empty tokens kept
RECURSIVE Split(_, _)
Split(s, sep) ==
    LET n == IndexOf(s, sep, 1)
    IN  IF n = 0 THEN <<s>>
        ELSE <<SubSeq(s, 1, n - 1)>> \o Split(SubSeq(s, n + 1, Len(s)), sep)

fileOptions(content) ==
    LET firstLine == FirstLine(content)
    IN  IF ~HasPrefix(firstLine, Prefix) THEN <<>>
        ELSE Split(TrimPrefix(firstLine, Prefix), " ")

\* a test that looks at the first option only
txDisabledFirst(opts) == Len(opts) >= 1 /\ opts[1] = <<txDisabledOption>>

txDisabled(opts) == \E i \in 1..Len(opts) : opts[i] = <<txDisabledOption>>

\* sample file contents: no directive line, the directive, the directive
\* among other tokens, and the directive on a later line
Contents == {
    <<"CREATE">>,
    <<"-", "-", " ", txDisabledOption, "\n", "CREATE">>,
    <<"-", "-", " ", "foo", " ", txDisabledOption, "\n", "CREATE">>,
    <<"CREATE", "\n", "-", "-", " ", txDisabledOption>> }

(* --------------------------- the database ------------------------------ *)

\* the relation the SQL identifier public.schema_migrations resolves to
IsVersionTable(r) == r.table_schema = "public" /\ r.table_name = "schema_migrations"

TableExists(cat) == \E r \in cat : IsVersionTable(r)

TableRow(type) ==
    [table_schema |-> "public", table_name |-> "schema_migrations", data_type |-> type]

\* SELECT count(*) FROM information_schema.tables WHERE table_name = $1
CountTables(cat, name) == Cardinality({r \in cat : r.table_name = name})

\* SELECT data_type FROM information_schema.columns
\*   WHERE table_name = $1 AND column_name = 'version'     ("" is sql.ErrNoRows)
DataTypeOf(cat, name) ==
    IF \E r \in cat : r.table_name = name
    THEN (CHOOSE r \in cat : r.table_name = name).data_type
    ELSE ""

\* CREATE TABLE without IF NOT EXISTS: fails when the relation exists
CreateTablePlain(cat) ==
    IF TableExists(cat) THEN [err |-> "error", cat |-> cat]
    ELSE [err |-> "nil", cat |-> cat \cup {TableRow("bigint")}]

\* CREATE TABLE IF NOT EXISTS public.schema_migrations (version bigint not null primary key)
CreateTableIfNotExists(cat) ==
    IF TableExists(cat) THEN [err |-> "nil", cat |-> cat]
    ELSE [err |-> "nil", cat |-> cat \cup {TableRow("bigint")}]

\* ALTER TABLE public.schema_migrations ALTER COLUMN version TYPE bigint USING version::bigint
AlterColumnBigint(cat) ==
    IF TableExists(cat)
    THEN [err |-> "nil",
          cat |-> {r \in cat : ~IsVersionTable(r)} \cup {TableRow("bigint")}]
    ELSE [err |-> "error", cat |-> cat]

\* places where a database round trip of ensureVersionTableExists can fail
EnsureFaults == {"none", "count", "ddl"}

\* Driver.ensureVersionTableExists: result [err, cat, ddl] for a given fault
ensureVersionTableExists(cat, fault) ==
    LET c == CountTables(cat, tableName)
    IN  IF fault = "count" THEN [err |-> "error", cat |-> cat, ddl |-> <<>>]
        ELSE IF c <= 0
        THEN IF fault = "ddl" THEN [err |-> "error", cat |-> cat, ddl |-> <<"CREATE">>]
             ELSE LET r == CreateTableIfNotExists(cat)
                  IN  [err |-> r.err, cat |-> r.cat, ddl |-> <<"CREATE">>]
        ELSE LET dataType == DataTypeOf(cat, tableName)
             IN  IF dataType = "" THEN [err |-> "error", cat |-> cat, ddl |-> <<>>]
                 ELSE IF dataType = "bigint" THEN [err |-> "nil", cat |-> cat, ddl |-> <<>>]
                 ELSE IF fault = "ddl"
                 THEN [err |-> "error", cat |-> cat, ddl |-> <<"ALTER">>]
                 ELSE LET r == AlterColumnBigint(cat)
                      IN  [err |-> r.err, cat |-> r.cat, ddl |-> <<"ALTER">>]

\* SELECT version FROM public.schema_migrations ORDER BY version DESC
RECURSIVE SortDesc(_)
SortDesc(S) ==
    IF S = {} THEN <<>>
    ELSE LET m == CHOOSE x \in S : \A y \in S : y <= x
         IN  <<m>> \o SortDesc(S \ {m})

\* the query of Versions with the LIMIT 1 of Version
VersionsLimitOne(rows) == IF rows = {} THEN <<>> ELSE <<Head(SortDesc(rows))>>

\* Driver.Versions: the applied versions, highest first
Versions(rows) == SortDesc(rows)

\* the query of Version ordered ascending
VersionAscending(rows) ==
    IF rows = {} THEN NoVersion ELSE CHOOSE x \in rows : \A y \in rows : x <= y

\* Driver.Version: the first row of the descending order, or the zero value
Version(rows) == IF rows = {} THEN NoVersion ELSE Head(SortDesc(rows))

\* the value of AppliedVersions() as a set
AppliedVersions == {Versions(markers)[i] : i \in 1..Len(Versions(markers))}

\* the effect of executing the statements of file g on a set of effects
Apply(g, eff) ==
    IF g.Direction = Up THEN eff \cup {g.Version} ELSE eff \ {g.Version}

(* --------------------------- result channel ---------------------------- *)

FileValue(g) == [kind |-> "file", Version |-> g.Version, Direction |-> g.Direction]

ErrValue(what) == [kind |-> "error", what |-> what]

\* a send that puts the value in front of the values already sent
SendFront(v) == pipe' = <<v>> \o pipe

Send(v) == pipe' = Append(pipe, v)

Errors(p) == {i \in 1..Len(p) : p[i].kind = "error"}

Op(name, ok) == [op |-> name, ok |-> ok]

Log(name, ok) == ops' = Append(ops, Op(name, ok))

(* ------------------------------- Init ---------------------------------- *)

StartCatalogs == { {}, {TableRow("bigint")}, {TableRow("integer")} }

NoFile == [Version |-> NoVersion, Direction |-> Up, Content |-> <<>>, readable |-> TRUE]

NoCall == [Version |-> NoVersion, Direction |-> Up, ok |-> FALSE, pre |-> {}]

Init ==
    /\ catalog \in StartCatalogs
    /\ markers = {}
    /\ effects = {}
    /\ pc = "idle"
    /\ f = NoFile
    /\ tx = "none"
    /\ txMarkers = {}
    /\ txEffects = {}
    /\ pipe = <<>>
    /\ closed = FALSE
    /\ ops = <<>>
    /\ pre = [markers |-> {}, effects |-> {}]
    /\ last = NoCall
    /\ everDisabled = FALSE
    /\ ensure = [err |-> "none", fault |-> "none", ddl |-> <<>>,
                 prev |-> "none", before |-> catalog]
    /\ options = <<>>
    /\ received = 0

Idle == pc \in {"idle", "done"}

\* a send on the channel returns once the consumer has taken the value, so
\* the call takes its next step only when everything sent was received
Drained == received = Len(pipe)

(* --------------------------- EnsureSchema ------------------------------ *)

\* Driver.ensureVersionTableExists; its only caller is Initialize (line 40),
\* which runs before the driver is handed any file
EnsureSchema ==
    /\ pc = "idle"
    /\ \E fault \in EnsureFaults :
         LET r == ensureVersionTableExists(catalog, fault)
         IN  /\ catalog' = r.cat
             /\ ensure' = [err |-> r.err, fault |-> fault, ddl |-> r.ddl,
                            prev |-> ensure.err, before |-> catalog]
    /\ UNCHANGED <<markers, effects, pc, f, tx, txMarkers, txEffects, pipe,
                   closed, ops, pre, last, everDisabled, options, received>>

(* ------------------------------ Migrate -------------------------------- *)

\* summary of the call that just finished, kept when the next one starts
Summary ==
    IF pc = "done" /\ Errors(pipe) = {}
    THEN [Version |-> f.Version, Direction |-> f.Direction,
          ok |-> TRUE, pre |-> pre.markers]
    ELSE NoCall

\* Migrate without the send of line 88
MigrateStartNoFile ==
    /\ Idle
    /\ ensure.err = "nil"
    /\ \E v \in VersionSet, d \in Directions, c \in Contents, r \in BOOLEAN :
         f' = [Version |-> v, Direction |-> d, Content |-> c, readable |-> r]
    /\ pipe' = <<>>
    /\ closed' = FALSE
    /\ ops' = <<>>
    /\ tx' = "none"
    /\ txMarkers' = markers
    /\ txEffects' = effects
    /\ pre' = [markers |-> markers, effects |-> effects]
    /\ last' = Summary
    /\ pc' = "begin"
    /\ ensure' = [ensure EXCEPT !.prev = "none", !.before = catalog, !.ddl = <<>>]
    /\ options' = <<>>
    /\ received' = 0
    /\ UNCHANGED <<catalog, markers, effects, everDisabled>>

\* Migrate is called on a driver whose Initialize returned nil:
\* defer close(pipe); pipe <- f
MigrateStart ==
    /\ Idle
    /\ ensure.err = "nil"
    /\ \E v \in VersionSet, d \in Directions, c \in Contents, r \in BOOLEAN :
         f' = [Version |-> v, Direction |-> d, Content |-> c, readable |-> r]
    /\ pipe' = <<FileValue(f')>>
    /\ closed' = FALSE
    /\ ops' = <<>>
    /\ tx' = "none"
    /\ txMarkers' = markers
    /\ txEffects' = effects
    /\ pre' = [markers |-> markers, effects |-> effects]
    /\ last' = Summary
    /\ pc' = "begin"
    /\ ensure' = [ensure EXCEPT !.prev = "none", !.before = catalog, !.ddl = <<>>]
    /\ options' = <<>>
    /\ received' = 0
    /\ UNCHANGED <<catalog, markers, effects, everDisabled>>

\* tx, err := driver.db.Begin()
Begin ==
    /\ pc = "begin"
    /\ Drained
    /\ \E ok \in BOOLEAN :
         /\ Log("begin", ok)
         /\ IF ok
            THEN /\ tx' = "open"
                 /\ pc' = "marker"
                 /\ UNCHANGED pipe
            ELSE /\ Send(ErrValue("begin"))
                 /\ pc' = "return"
                 /\ UNCHANGED tx
    /\ UNCHANGED <<catalog, markers, effects, f, txMarkers, txEffects, closed,
                   pre, last, everDisabled, ensure>>
    /\ UNCHANGED <<options, received>>

\* an insert that ignores the primary key of the version column
InsertOkNoKey(v, fault) == TableExists(catalog) /\ ~fault

\* INSERT INTO public.schema_migrations (version) VALUES ($1), inside tx
InsertOk(v, fault) == TableExists(catalog) /\ v \notin txMarkers /\ ~fault

\* a delete that reports an error when it removed no row
DeleteOkRowRequired(v, fault) == TableExists(catalog) /\ v \in txMarkers /\ ~fault

\* DELETE FROM public.schema_migrations WHERE version=$1, inside tx
DeleteOk(v, fault) == TableExists(catalog) /\ ~fault

\* a delete whose WHERE clause matches no row
DeleteRowNone(rows, v) == rows

\* the rows left by DELETE ... WHERE version=$1
DeleteRow(rows, v) == rows \ {v}

\* the rows after INSERT ... VALUES ($1)
InsertRow(rows, v) == rows \cup {v}

\* a marker mutation whose failure does not end the call
MarkerNoReturn ==
    /\ pc = "marker"
    /\ received = Len(pipe)
    /\ \E fault \in BOOLEAN :
         LET ok == IF f.Direction = Up THEN InsertOk(f.Version, fault)
                   ELSE DeleteOk(f.Version, fault)
         IN  /\ ops' = Append(ops, [op |-> IF f.Direction = Up THEN "insert" ELSE "delete",
                                    ok |-> ok])
             /\ IF ok
                THEN /\ txMarkers' = IF f.Direction = Up
                                     THEN InsertRow(txMarkers, f.Version)
                                     ELSE DeleteRow(txMarkers, f.Version)
                     /\ UNCHANGED pipe
                ELSE /\ pipe' = Append(pipe, [kind |-> "error", what |-> "marker"])
                     /\ UNCHANGED txMarkers
             /\ pc' = "read"
    /\ UNCHANGED <<catalog, markers, effects, f, tx, txEffects, closed, pre,
                   last, everDisabled, ensure, options, received>>

\* the marker mutation of lines 96-112
Marker ==
    /\ pc = "marker"
    /\ Drained
    /\ \E fault \in BOOLEAN :
         IF f.Direction = Up
         THEN /\ Log("insert", InsertOk(f.Version, fault))
              /\ IF InsertOk(f.Version, fault)
                 THEN /\ txMarkers' = InsertRow(txMarkers, f.Version)
                      /\ pc' = "read"
                      /\ UNCHANGED pipe
                 ELSE /\ Send(ErrValue("marker"))
                      /\ pc' = "rollback"
                      /\ UNCHANGED txMarkers
         ELSE IF f.Direction = Down
         THEN /\ Log("delete", DeleteOk(f.Version, fault))
              /\ IF DeleteOk(f.Version, fault)
                 THEN /\ txMarkers' = DeleteRow(txMarkers, f.Version)
                      /\ pc' = "read"
                      /\ UNCHANGED pipe
                 ELSE /\ Send(ErrValue("marker"))
                      /\ pc' = "rollback"
                      /\ UNCHANGED txMarkers
         ELSE /\ pc' = "read"
              /\ UNCHANGED <<txMarkers, pipe, ops>>
    /\ UNCHANGED <<catalog, markers, effects, f, tx, txEffects, closed, pre,
                   last, everDisabled, ensure>>
    /\ UNCHANGED <<options, received>>

\* a content-load failure that rolls the transaction back before returning
ReadContentRollback ==
    /\ pc = "read"
    /\ received = Len(pipe)
    /\ ops' = Append(ops, [op |-> "read", ok |-> f.readable])
    /\ IF f.readable
       THEN /\ pc' = "exec"
            /\ UNCHANGED pipe
       ELSE /\ pipe' = Append(pipe, [kind |-> "error", what |-> "read"])
            /\ pc' = "rollback"
    /\ UNCHANGED <<catalog, markers, effects, f, tx, txMarkers, txEffects,
                   closed, pre, last, everDisabled, ensure, options, received>>

\* f.ReadContent()
ReadContent ==
    /\ pc = "read"
    /\ Drained
    /\ Log("read", f.readable)
    /\ IF f.readable
       THEN /\ pc' = "exec"
            /\ UNCHANGED pipe
       ELSE /\ Send(ErrValue("read"))
            /\ pc' = "return"
    /\ UNCHANGED <<catalog, markers, effects, f, tx, txMarkers, txEffects,
                   closed, pre, last, everDisabled, ensure>>
    /\ UNCHANGED <<options, received>>

\* outcomes of Exec: success, a *pq.Error with or without a usable Position,
\* or an error of another type (driver.ErrBadConn, sql.ErrTxDone, ...)
ExecOutcomes == {"ok", "pqPosition", "pqNoPosition", "notPq"}

\* the error value built for a statement failure (lines 126-134)
StatementError(outcome) ==
    IF outcome = "pqPosition" THEN ErrValue("statementLocated")
    ELSE ErrValue("statement")

\* a failed Exec that falls through to the commit
AfterExecErrorCommit(outcome) == "commit"

\* where the unchecked assertion err.(*pq.Error) leads for a failed Exec
AfterExecError(outcome) == IF outcome = "notPq" THEN "panic" ELSE "rollback"

\* the statements always sent on the connection
ExecTargetDb(disabled) == "db"

\* lines 119-123: driver.db.Exec when the directive is present, else tx.Exec
ExecTarget(disabled) == IF disabled THEN "db" ELSE "tx"

\* lines 119-140: execute the content, report a failure
Exec ==
    /\ pc = "exec"
    /\ Drained
    /\ \E outcome \in ExecOutcomes :
         LET parsed == fileOptions(f.Content)
             disabled == txDisabled(parsed)
             target == ExecTarget(disabled)
         IN  /\ options' = parsed
             /\ Log(IF target = "db" THEN "execDb" ELSE "execTx", outcome = "ok")
             /\ everDisabled' = (everDisabled \/ disabled)
             /\ IF outcome = "ok"
                THEN /\ effects' = IF target = "db" THEN Apply(f, effects) ELSE effects
                     /\ txEffects' = Apply(f, txEffects)
                     /\ pc' = "commit"
                     /\ UNCHANGED pipe
                ELSE /\ pc' = AfterExecError(outcome)
                     /\ IF pc' = "panic"
                        THEN UNCHANGED pipe
                        ELSE Send(StatementError(outcome))
                     /\ UNCHANGED <<effects, txEffects>>
    /\ UNCHANGED <<catalog, markers, f, tx, txMarkers, closed, pre, last, ensure,
                   received>>

\* a rollback whose own error is dropped
RollbackSilent ==
    /\ pc = "rollback"
    /\ received = Len(pipe)
    /\ \E ok \in BOOLEAN :
         /\ ops' = Append(ops, [op |-> "rollback", ok |-> ok])
         /\ tx' = IF ok THEN "rolledback" ELSE "rollbackFailed"
    /\ txMarkers' = markers
    /\ txEffects' = effects
    /\ pc' = "return"
    /\ UNCHANGED <<catalog, markers, effects, f, closed, pre, last,
                   everDisabled, ensure, pipe, options, received>>

\* tx.Rollback() after a marker or statement failure
Rollback ==
    /\ pc = "rollback"
    /\ Drained
    /\ \E ok \in BOOLEAN :
         /\ Log("rollback", ok)
         /\ IF ok
            THEN /\ tx' = "rolledback"
                 /\ UNCHANGED pipe
            ELSE /\ tx' = "rollbackFailed"
                 /\ Send(ErrValue("rollback"))
    /\ txMarkers' = markers
    /\ txEffects' = effects
    /\ pc' = "return"
    /\ UNCHANGED <<catalog, markers, effects, f, closed, pre, last,
                   everDisabled, ensure>>
    /\ UNCHANGED <<options, received>>

\* a commit whose failure is followed by a rollback
CommitThenRollback ==
    /\ pc = "commit"
    /\ received = Len(pipe)
    /\ \E ok \in BOOLEAN :
         /\ ops' = Append(ops, [op |-> "commit", ok |-> ok])
         /\ IF ok
            THEN /\ tx' = "committed"
                 /\ markers' = txMarkers
                 /\ effects' = txEffects
                 /\ pc' = "return"
                 /\ UNCHANGED <<pipe, txMarkers, txEffects>>
            ELSE /\ tx' = "commitFailed"
                 /\ pipe' = Append(pipe, [kind |-> "error", what |-> "commit"])
                 /\ txMarkers' = markers
                 /\ txEffects' = effects
                 /\ pc' = "rollback"
                 /\ UNCHANGED <<markers, effects>>
    /\ UNCHANGED <<catalog, f, closed, pre, last, everDisabled, ensure, options,
                   received>>

\* tx.Commit()
Commit ==
    /\ pc = "commit"
    /\ Drained
    /\ \E ok \in BOOLEAN :
         /\ Log("commit", ok)
         /\ IF ok
            THEN /\ tx' = "committed"
                 /\ markers' = txMarkers
                 /\ effects' = txEffects
                 /\ UNCHANGED <<pipe, txMarkers, txEffects>>
            ELSE /\ tx' = "commitFailed"
                 /\ Send(ErrValue("commit"))
                 /\ txMarkers' = markers
                 /\ txEffects' = effects
                 /\ UNCHANGED <<markers, effects>>
    /\ pc' = "return"
    /\ UNCHANGED <<catalog, f, closed, pre, last, everDisabled, ensure>>
    /\ UNCHANGED <<options, received>>

\* a return that leaves the channel open
ReturnNoClose ==
    /\ pc = "return"
    /\ received = Len(pipe)
    /\ pc' = "done"
    /\ UNCHANGED <<catalog, markers, effects, f, tx, txMarkers, txEffects,
                   pipe, closed, ops, pre, last, everDisabled, ensure, options,
                   received>>

\* the deferred close(pipe) when Migrate returns
Return ==
    /\ pc = "return"
    /\ Drained
    /\ closed' = TRUE
    /\ pc' = "done"
    /\ UNCHANGED <<catalog, markers, effects, f, tx, txMarkers, txEffects,
                   pipe, ops, pre, last, everDisabled, ensure>>
    /\ UNCHANGED <<options, received>>

\* the deferred close(pipe) while the panic of line 126 unwinds; the panic
\* is not recovered and ends the process
Panic ==
    /\ pc = "panic"
    /\ Drained
    /\ closed' = TRUE
    /\ pc' = "crashed"
    /\ UNCHANGED <<catalog, markers, effects, f, tx, txMarkers, txEffects,
                   pipe, ops, pre, last, everDisabled, ensure>>
    /\ UNCHANGED <<options, received>>

\* the consumer takes the next value from the channel
Consume ==
    /\ received < Len(pipe)
    /\ received' = received + 1
    /\ UNCHANGED <<catalog, markers, effects, pc, f, tx, txMarkers, txEffects,
                   pipe, closed, ops, pre, last, everDisabled, ensure, options>>

Next ==
    \/ EnsureSchema
    \/ MigrateStart
    \/ Begin
    \/ Marker
    \/ ReadContent
    \/ Exec
    \/ Rollback
    \/ Commit
    \/ Return
    \/ Panic
    \/ Consume

Spec == Init /\ [][Next]_vars

\* the steps of the goroutine that runs Migrate
MigrateStep ==
    Begin \/ Marker \/ ReadContent \/ Exec \/ Rollback \/ Commit \/ Return \/ Panic

\* an initialised driver on a database in any state earlier calls can leave
LiveInit ==
    /\ catalog \in {{TableRow("bigint")}, {TableRow("integer")}}
    /\ markers \in SUBSET VersionSet
    /\ effects \in SUBSET VersionSet
    /\ pc = "idle"
    /\ f = NoFile
    /\ tx = "none"
    /\ txMarkers = markers
    /\ txEffects = effects
    /\ pipe = <<>>
    /\ closed = FALSE
    /\ ops = <<>>
    /\ pre = [markers |-> markers, effects |-> effects]
    /\ last = NoCall
    /\ everDisabled = (markers # effects)
    /\ ensure = [err |-> "nil", fault |-> "none", ddl |-> <<>>,
                 prev |-> "none", before |-> catalog]
    /\ options = <<>>
    /\ received = 0

\* the Migrate call whose termination is followed
OneCall == pc = "idle" /\ MigrateStart

LiveNext ==
    \/ OneCall
    \/ Begin
    \/ Marker
    \/ ReadContent
    \/ Exec
    \/ Rollback
    \/ Commit
    \/ Return
    \/ Panic
    \/ Consume

\* one call from any database state; the goroutine keeps running (every
\* database operation returns) and the consumer keeps receiving
LiveSpec ==
    LiveInit /\ [][LiveNext]_vars /\ WF_vars(MigrateStep) /\ WF_vars(Consume)

(* ------------------- fileOptions applied on its own -------------------- *)

Alphabet == {"-", " ", "\n", txDisabledOption, "foo"}

AllContents == UNION {[1..n -> Alphabet] : n \in 0..MaxLen}

InitOptions ==
    /\ catalog = {TableRow("bigint")}
    /\ markers = {}
    /\ effects = {}
    /\ pc = "parse"
    /\ f \in {[NoFile EXCEPT !.Content = c] : c \in AllContents}
    /\ tx = "none"
    /\ txMarkers = {}
    /\ txEffects = {}
    /\ pipe = <<>>
    /\ closed = FALSE
    /\ ops = <<>>
    /\ pre = [markers |-> {}, effects |-> {}]
    /\ last = NoCall
    /\ everDisabled = FALSE
    /\ ensure = [err |-> "nil", fault |-> "none", ddl |-> <<>>,
                 prev |-> "none", before |-> catalog]
    /\ options = <<>>
    /\ received = 0

\* opts := fileOptions(f.Content), the argument of txDisabled on line 119
ParseOptions ==
    /\ pc = "parse"
    /\ options' = fileOptions(f.Content)
    /\ pc' = "parsed"
    /\ UNCHANGED <<catalog, markers, effects, f, tx, txMarkers, txEffects, pipe,
                   closed, ops, pre, last, everDisabled, ensure, received>>

NextOptions == ParseOptions

SpecOptions == InitOptions /\ [][NextOptions]_vars

(* ------------------------------ properties ----------------------------- *)

Finished == closed /\ pc \in {"done", "crashed"}

\* the call returned normally and sent no error value
Succeeded == pc = "done" /\ Errors(pipe) = {}

Did(name, ok) == \E i \in 1..Len(ops) : ops[i] = Op(name, ok)

HasDirective == txDisabled(fileOptions(f.Content))

StatementsFailed == Did("execTx", FALSE) \/ Did("execDb", FALSE)

MarkerMutated == Did("insert", TRUE) \/ Did("delete", TRUE)

\* C1: when the statements of a file without the disable-transaction
\* directive fail, AppliedVersions() equals the set applied before the call,
\* from the failure on and after the call.
C1_FailedStatementsLeaveVersions ==
    (pc # "idle" /\ ~HasDirective /\ StatementsFailed)
        => AppliedVersions = pre.markers

C1_Witness ==
    /\ pc = "done"
    /\ ~HasDirective
    /\ Did("insert", TRUE)
    /\ Did("execTx", FALSE)
    /\ tx = "rolledback"

\* C2: the stream of a call closes without an error value if and only if the
\* call's transaction was committed with the marker mutation and the
\* statements applied; a call that did not commit sent at least one error.
C2_NoErrorIffCommitted ==
    Finished =>
        ((Errors(pipe) = {}) <=>
            (tx = "committed" /\ MarkerMutated
                /\ (Did("execTx", TRUE) \/ Did("execDb", TRUE))))

\* C3: the first value of every call's stream is the file, and the stream of
\* a call that committed holds exactly that one value when it is closed.
C3_FileFirst ==
    /\ pc # "idle" => (Len(pipe) >= 1 /\ pipe[1] = FileValue(f))
    /\ (closed /\ tx = "committed") => pipe = <<FileValue(f)>>

C3_Witness == closed /\ tx = "committed" /\ Len(pipe) = 1

\* C4: as long as no file with the disable-transaction directive was
\* executed, the committed marker rows are exactly the versions whose Up
\* statements are committed.
C4_MarkerIffEffect == ~everDisabled => markers = effects

C4_Witness ==
    /\ ~everDisabled
    /\ markers # {}
    /\ pc = "done"
    /\ Did("execTx", FALSE)

\* a partial application, which only a file with the directive produces
C4_PartialReachable == everDisabled /\ markers # effects

\* C5: after an Up call that returned without an error value the file's
\* version is a member of AppliedVersions().
C5_UpVersionApplied ==
    (Succeeded /\ f.Direction = Up) => f.Version \in AppliedVersions

C5_Witness ==
    /\ Succeeded
    /\ f.Direction = Up
    /\ \E w \in pre.markers : w > f.Version

\* C6 as stated: after an Up call that returned without an error value
\* CurrentVersion() equals the file's version, whatever was applied before.
C6_CurrentVersionIsFile ==
    (Succeeded /\ f.Direction = Up) => Version(markers) = f.Version

\* C6 amended: after such a call CurrentVersion() is the file's version when
\* no higher version was applied before the call, and otherwise the highest
\* version applied before the call.
C6_CurrentVersionIsHighest ==
    (Succeeded /\ f.Direction = Up) =>
        IF \A w \in pre.markers : w < f.Version
        THEN Version(markers) = f.Version
        ELSE Version(markers) = Version(pre.markers)

C6_Witness ==
    /\ Succeeded
    /\ f.Direction = Up
    /\ pre.markers # {}
    /\ \A w \in pre.markers : w < f.Version

\* C7: after a Down call that returned without an error value the file's
\* version is not a member of AppliedVersions().
C7_DownVersionRemoved ==
    (Succeeded /\ f.Direction = Down) => f.Version \notin AppliedVersions

C7_Witness ==
    /\ Succeeded
    /\ f.Direction = Down
    /\ f.Version \in pre.markers

\* C8: an Up call followed by a Down call of the same version, both returned
\* without an error value, leaves AppliedVersions() equal to the set applied
\* before the Up call.
C8_UpDownRoundTrip ==
    (Succeeded /\ f.Direction = Down /\ last.ok /\ last.Direction = Up
        /\ last.Version = f.Version)
        => AppliedVersions = last.pre

C8_Witness ==
    /\ Succeeded
    /\ f.Direction = Down
    /\ last.ok
    /\ last.Direction = Up
    /\ last.Version = f.Version
    /\ last.pre # {}

NewCall == Idle /\ pc' = "begin"

\* C9: a call's stream is the file, then only error values, then the close:
\* a new call starts its stream with its file; every other send appends one
\* error value to an open stream that starts with the file; the close happens
\* on an open stream as the call's last step; nothing changes a closed stream.
C9_StreamShape ==
    [][ /\ NewCall => (pipe' = <<FileValue(f')>> /\ ~closed')
        /\ (~NewCall /\ pipe' # pipe) =>
              /\ ~closed /\ ~closed'
              /\ Len(pipe) >= 1 /\ pipe[1] = FileValue(f) /\ f' = f
              /\ \E e \in {ErrValue(w) : w \in {"begin", "marker", "read",
                     "statement", "statementLocated", "rollback", "commit"}} :
                     pipe' = Append(pipe, e)
        /\ (~NewCall /\ closed) => (closed' /\ pipe' = pipe)
        /\ (~closed /\ closed') =>
              (pipe' = pipe /\ pc \in {"return", "panic"}
                  /\ pc' \in {"done", "crashed"})
      ]_vars

C9_Witness == closed /\ Len(pipe) = 3

\* C10: an EnsureSchema call that follows one that returned no error, and
\* whose own database round trips work, returns no error and leaves the
\* catalog as the first call left it.
C10_EnsureIdempotent ==
    (ensure.prev = "nil" /\ ensure.fault = "none")
        => (ensure.err = "nil" /\ catalog = ensure.before)

C10_Witness ==
    /\ ensure.prev = "nil"
    /\ ensure.fault = "none"
    /\ catalog = {TableRow("integer")}

IsMarkerOp(o) == o.op \in {"insert", "delete"}

IsExecOp(o) == o.op \in {"execTx", "execDb"}

MarkerOps == {i \in 1..Len(ops) : IsMarkerOp(ops[i])}

ExecOps == {i \in 1..Len(ops) : IsExecOp(ops[i])}

\* the statements run only after a marker mutation that succeeded
StatementsAfterMarker ==
    \A i \in ExecOps : \E j \in MarkerOps : j < i /\ ops[j].ok

\* C11 as stated: every call makes exactly one marker mutation, before the
\* statements, and runs no statements without a successful mutation.
C11_ExactlyOneMarkerMutation ==
    /\ Finished => Cardinality(MarkerOps) = 1
    /\ StatementsAfterMarker

\* C11 amended: a call makes at most one marker mutation, exactly one when
\* its transaction was opened and none when Begin failed; the mutation is
\* the insert for Up and the delete for Down, it precedes the statements,
\* and no statements run without a successful mutation.
C11_OneMarkerMutationOnceBegun ==
    /\ Cardinality(MarkerOps) <= 1
    /\ (Finished /\ Did("begin", TRUE)) => Cardinality(MarkerOps) = 1
    /\ (Finished /\ Did("begin", FALSE)) => MarkerOps = {}
    /\ \A i \in MarkerOps :
          ops[i].op = (IF f.Direction = Up THEN "insert" ELSE "delete")
    /\ StatementsAfterMarker

C11_Witness ==
    /\ Finished
    /\ ExecOps # {}
    /\ Cardinality(MarkerOps) = 1

\* the values a call sends after the file when operation what failed and
\* the rollback that followed returned rollbackOk
FailureValues(whats, rollbackOk) ==
    { <<FileValue(f), ErrValue(w)>>
        \o (IF rollbackOk THEN <<>> ELSE <<ErrValue("rollback")>>) : w \in whats }

\* C12: a call whose statements failed sent the file, one formatted
\* statement error and, only when the rollback failed, the rollback error as
\* a further value; it attempted the rollback right after the failure and
\* never the commit.
C12_StatementFailureReported ==
    (Finished /\ StatementsFailed) =>
        /\ IsExecOp(ops[Len(ops) - 1]) /\ ops[Len(ops)].op = "rollback"
        /\ pipe \in FailureValues({"statement", "statementLocated"}, ops[Len(ops)].ok)
        /\ ~Did("commit", TRUE) /\ ~Did("commit", FALSE)

\* C13: a call whose content could not be loaded sent exactly one error and
\* closed the stream; its transaction is still open, no statements ran, no
\* commit or rollback was attempted and the marker mutation is not visible.
C13_ReadFailureLeavesTxOpen ==
    (Finished /\ Did("read", FALSE)) =>
        /\ pipe = <<FileValue(f), ErrValue("read")>>
        /\ tx = "open"
        /\ ops[Len(ops)] = Op("read", FALSE)
        /\ ExecOps = {}
        /\ MarkerOps # {} /\ \A i \in MarkerOps : ops[i].ok
        /\ AppliedVersions = pre.markers

C13_Witness ==
    /\ Finished
    /\ Did("read", FALSE)
    /\ Did("insert", TRUE)
    /\ f.Version \notin AppliedVersions

MarkerFailed == Did("insert", FALSE) \/ Did("delete", FALSE)

\* C14: a call whose marker insert or delete failed sent that error, then
\* attempted the rollback and sent the rollback error if it failed, then
\* closed; it loaded no content, ran no statements, attempted no commit and
\* left AppliedVersions() as before the call.  An Up call for a version that
\* is already applied fails at the insert.
C14_MarkerFailureRollsBack ==
    /\ (Finished /\ MarkerFailed) =>
          /\ Len(ops) = 3 /\ ops[1] = Op("begin", TRUE) /\ IsMarkerOp(ops[2])
          /\ ops[3].op = "rollback"
          /\ pipe \in FailureValues({"marker"}, ops[3].ok)
          /\ AppliedVersions = pre.markers
    /\ (f.Direction = Up /\ f.Version \in pre.markers /\ MarkerOps # {})
          => Did("insert", FALSE)

C14_Witness ==
    /\ Finished
    /\ f.Direction = Up
    /\ f.Version \in pre.markers
    /\ Did("insert", FALSE)
    /\ Did("rollback", FALSE)

\* position of the first newline of c, or one past its end
LineEnd(c) ==
    CHOOSE n \in 1..(Len(c) + 1) :
        /\ n = Len(c) + 1 \/ c[n] = "\n"
        /\ \A k \in 1..(n - 1) : c[k] # "\n"

\* c begins with dash, dash, space
StartsWithPrefix(c) == Len(c) >= 3 /\ c[1] = "-" /\ c[2] = "-" /\ c[3] = " "

\* the directive line of c carries the disable-transaction directive: the
\* word stands after the prefix on the first line, between spaces or the
\* ends of the line's remainder
DirectivePresent(c) ==
    /\ StartsWithPrefix(c)
    /\ \E i \in 4..(LineEnd(c) - 1) :
          /\ c[i] = txDisabledOption
          /\ i = 4 \/ c[i - 1] = " "
          /\ i + 1 = LineEnd(c) \/ c[i + 1] = " "

\* C15: the statements are executed on the connection exactly when the
\* file's directive line carries the directive, and in the transaction
\* otherwise; the marker mutation is made in the transaction either way: the
\* committed rows differ from those before the call only once the
\* transaction committed after the statements succeeded.
C15_DirectiveSelectsTarget ==
    /\ \A i \in ExecOps :
          /\ ops[i].op = "execDb" <=> DirectivePresent(f.Content)
          /\ ops[i].op = "execTx" <=> ~DirectivePresent(f.Content)
    /\ (pc # "idle" /\ markers # pre.markers) =>
          /\ tx = "committed"
          /\ \E i \in ExecOps : ops[i].ok
          /\ markers = txMarkers

C15_Witness ==
    /\ Finished
    /\ Did("execDb", TRUE)
    /\ DirectivePresent(f.Content)
    /\ tx = "committed"
    /\ markers # pre.markers

RECURSIVE Join(_, _)
Join(tokens, sep) ==
    IF Len(tokens) = 0 THEN <<>>
    ELSE IF Len(tokens) = 1 THEN tokens[1]
    ELSE tokens[1] \o <<sep>> \o Join(Tail(tokens), sep)

Symbols(t) == {t[i] : i \in 1..Len(t)}

\* C16: for content that begins with dash, dash, space the options are the
\* tokens of the first line's remainder: none holds a space or a newline, and
\* joined by single spaces they give back what stands between the prefix and
\* the first newline.  For any other content the options are empty and the
\* transaction is not disabled, whatever stands on later lines.
C16_ParseDirectives ==
    pc = "parsed" =>
        IF StartsWithPrefix(f.Content)
        THEN /\ Len(options) >= 1
             /\ \A i \in 1..Len(options) : Symbols(options[i]) \cap {" ", "\n"} = {}
             /\ Join(options, " ") = SubSeq(f.Content, 4, LineEnd(f.Content) - 1)
        ELSE options = <<>> /\ ~txDisabled(options)

C16_Witness ==
    /\ pc = "parsed"
    /\ f.Content = <<"foo", "\n", "-", "-", " ", txDisabledOption>>
    /\ options = <<>>

Issued(stmt) == \E i \in 1..Len(ensure.ddl) : ensure.ddl[i] = stmt

\* C17: the last EnsureSchema call issued the create statement only if the
\* version table was absent before it, the alter statement only if the table
\* was present with a version column that is not bigint, and no DDL at all
\* if the table was present with a bigint version column.
C17_DdlOnlyWhenNecessary ==
    /\ Issued("CREATE") => ~TableExists(ensure.before)
    /\ Issued("ALTER") => ensure.before = {TableRow("integer")}
    /\ ensure.before = {TableRow("bigint")} => ensure.ddl = <<>>

InCall == pc \notin {"idle", "done", "crashed"}

\* C18: a call that has started eventually closes its stream, whichever
\* operation fails on the way, when the consumer keeps receiving and every
\* database operation returns.
C18_StreamEventuallyClosed == InCall ~> Finished

C18_Witness ==
    /\ Finished
    /\ StatementsFailed
    /\ Did("rollback", FALSE)
    /\ received = 3

CommitOps == {i \in 1..Len(ops) : ops[i].op = "commit"}

RollbackOps == {i \in 1..Len(ops) : ops[i].op = "rollback"}

\* C19: a call invokes commit at most once and rollback at most once and
\* never both; a commit comes after a successful marker mutation and a
\* successful statement batch with no failed operation before it; a rollback
\* comes directly after a failed marker mutation or a failed statement batch.
C19_CommitXorRollback ==
    /\ Cardinality(CommitOps) <= 1
    /\ Cardinality(RollbackOps) <= 1
    /\ CommitOps = {} \/ RollbackOps = {}
    /\ \A i \in CommitOps :
          /\ \E j \in MarkerOps : j < i /\ ops[j].ok
          /\ \E k \in ExecOps : k < i /\ ops[k].ok
          /\ \A j \in 1..(i - 1) : ops[j].ok
    /\ \A i \in RollbackOps :
          /\ i > 1
          /\ IsMarkerOp(ops[i - 1]) \/ IsExecOp(ops[i - 1])
          /\ ~ops[i - 1].ok

C19_Witness ==
    /\ Finished
    /\ RollbackOps # {}
    /\ Did("execDb", FALSE)

\* C20: in a Down call for a version without a marker row the delete can
\* succeed (the missing row is no error) and then removes nothing; when such
\* a call returns without an error value its statements were executed, its
\* transaction is committed and the applied versions are those of before.
C20_DownWithoutMarker ==
    (pc # "idle" /\ f.Direction = Down /\ f.Version \notin pre.markers) =>
        /\ (pc = "marker" /\ Drained) => ENABLED (Marker /\ pc' = "read")
        /\ Did("delete", TRUE) => (tx = "open" => txMarkers = pre.markers)
        /\ Succeeded =>
              /\ Did("delete", TRUE)
              /\ ExecOps # {} /\ \A i \in ExecOps : ops[i].ok
              /\ tx = "committed"
              /\ AppliedVersions = pre.markers

C20_Witness ==
    /\ Succeeded
    /\ f.Direction = Down
    /\ f.Version \notin pre.markers
    /\ pre.markers # {}
    /\ tx = "committed"

====
